---- MODULE Spec2Model ----
(***************************************************************************)
(* Model of fortran_output_analysis/onephoton/onephoton.py: the selection  *)
(* rule final_kappas, the per-hole Channels object and the OnePhoton       *)
(* registry (load_hole, load_diag_data and their accessors).               *)
(*                                                                         *)
(* Python values are modelled as follows.                                  *)
(*   - an optional value is a sequence: <<>> is None, <<v>> is the value v *)
(*   - a dict is a function whose DOMAIN is the key set, except the        *)
(*     insertion-ordered path dict, which is a sequence of entries         *)
(*   - a 2-D numpy array is a sequence of rows, a 1-D array a sequence     *)
(*   - a complex number is a pair <<re, im>>                               *)
(*   - object identity is an id field drawn from the allocator next_id     *)
(***************************************************************************)
EXTENDS Integers, Sequences, FiniteSets, TLC

\* ------------------------------------------------------------------ bounds
\* principal quantum numbers 1..MaxN
MaxN == 2
\* hole kappas -MaxKappa..MaxKappa without 0
MaxKappa == 2
\* number of Channels objects constructed in one run
MaxLoads == 2
\* number of times the files on disk are rewritten
MaxVersion == 1
\* rows of every data file (points of the energy grid)
NumRows == 2
\* a diagonal matrix-elements file has 2..MaxDiagCols columns
MaxDiagCols == 3
\* number of load_diag_data calls that read files
MaxDiagLoads == 2
\* final_kappas and Channels are applied to the kappas -KappaRange..KappaRange
KappaRange == 30

VARIABLES
    channels,              \* OnePhoton.__channels: (n_qn, hole_kappa) -> Channels
    num_channels,          \* OnePhoton.num_channels
    diag_eigenvalues,      \* OnePhoton.__diag_eigenvalues (optional)
    diag_matrix_elements,  \* OnePhoton.__diag_matrix_elements (optional)
    diag_loaded,           \* OnePhoton.__diag_loaded
    disk,                  \* the data files: [version, layout]
    next_id,               \* identity of the next object constructed
    diag_reads,            \* number of load_diag_data calls that read files
    last,                  \* the most recent call and how it ended
    last_load,             \* the call that constructed the newest Channels
    fk,                    \* input and result of a final_kappas application
    built,                 \* a Channels object constructed on its own (optional)
    pc,                    \* per thread: the statement it executes next
    frame                  \* per thread: the local variables of its calls

vars == <<channels, num_channels, diag_eigenvalues, diag_matrix_elements,
          diag_loaded, disk, next_id, diag_reads, last, last_load, fk, built,
          pc, frame>>

\* the state of the holes and the state of the diagonal data
holes == <<channels, num_channels, next_id, last_load>>
diag == <<diag_eigenvalues, diag_matrix_elements, diag_loaded, diag_reads>>
\* the variables of the specifications of final_kappas and of Channels alone
\* and of the threads of the interleaved calls
threads == <<pc, frame>>
scratch == <<fk, built, threads>>

None == <<>>
Some(v) == <<v>>

\* ------------------------------------------------------- numpy primitives
\* np.abs
Abs(x) == IF x < 0 THEN -x ELSE x
\* np.sign
Sign(x) == IF x < 0 THEN -1 ELSE IF x > 0 THEN 1 ELSE 0

\* `x in s` for a list s
InList(x, s) == \E i \in 1..Len(s) : s[i] = x

\* a[:, 1:]
DropFirstColumn(a) == [r \in 1..Len(a) |-> Tail(a[r])]
\* a[:, :2], the first two columns
LastTwoColumns_FirstTwo(a) == [r \in 1..Len(a) |-> <<a[r][1], a[r][2]>>]
\* a[:, -2:]
LastTwoColumns(a) ==
    [r \in 1..Len(a) |-> <<a[r][Len(a[r]) - 1], a[r][Len(a[r])]>>]
\* number of columns of a 2-D array
Width(a) == Len(a[1])
\* a[:, c] for c >= 0 is defined when c < width (IndexError otherwise)
ColumnInRange(a, c) == 0 <= c /\ c < Width(a)
Column(a, c) == [r \in 1..Len(a) |-> a[r][c + 1]]

\* ------------------------------------------------------------ final_kappas
\* kappas = [sig * (mag - 1), -sig * mag, sig * (mag + 1)]
Candidates(hole_kappa) ==
    LET mag == Abs(hole_kappa)
        sig == Sign(hole_kappa)
    IN  <<sig * (mag - 1), (-sig) * mag, sig * (mag + 1)>>

\* the filter left out
FilterReachable_KeepZero(kappas) == kappas

\* [kappa for kappa in kappas if kappa != 0]
RECURSIVE FilterReachable(_)
FilterReachable(kappas) ==
    IF kappas = <<>> THEN <<>>
    ELSE IF Head(kappas) # 0
         THEN <<Head(kappas)>> \o FilterReachable(Tail(kappas))
         ELSE FilterReachable(Tail(kappas))

final_kappas(hole_kappa, only_reachable) ==
    IF only_reachable THEN FilterReachable(Candidates(hole_kappa))
    ELSE Candidates(hole_kappa)

\* --------------------------------------------------------- the data files
\* A datum of a file is a number that names it: the hole the file belongs to
\* (0, 0 for the atom-wide files), the file, the version of the file on disk,
\* its row and its column.
FileCode(file) ==
    CASE file = "omega" -> 1
      [] file = "pcur_all" -> 2
      [] file = "amp_all" -> 3
      [] file = "phaseF_all" -> 4
      [] file = "phaseG_all" -> 5
      [] file = "diag_eigenvalues" -> 6
      [] file = "diag_matrix_elements" -> 7

DatumOf(version, n_qn, hole_kappa, file, row, col) ==
    (((((n_qn * 100 + (hole_kappa + 50)) * 10 + FileCode(file)) * 10
        + version) * 10 + row) * 10 + col)

\* a datum of the files as they are on disk now
Datum(n_qn, hole_kappa, file, row, col) ==
    DatumOf(disk.version, n_qn, hole_kappa, file, row, col)

\* the version of the files a datum was read from
DatumVersion(d) == (d \div 100) % 10

\* Data columns of a per-channel file, after the leading energy column: one
\* per reachable channel ("reachable", the documented file format) or one
\* per candidate channel, the forbidden one included ("candidates", the
\* format the comment in __add_ionisation_path describes).
DataWidth(hole_kappa) ==
    IF disk.layout = "reachable" THEN Len(final_kappas(hole_kappa, TRUE))
    ELSE Len(final_kappas(hole_kappa, FALSE))

\* load_raw_data(path_to_omega): the energy grid, one value per row
OmegaFile(n_qn, hole_kappa) ==
    [r \in 1..NumRows |-> Datum(n_qn, hole_kappa, "omega", r, 0)]

\* load_raw_data of a per-channel file: column 0 is the photon energy
TableFile(n_qn, hole_kappa, file) ==
    [r \in 1..NumRows |->
        [c \in 1..(1 + DataWidth(hole_kappa)) |->
            Datum(n_qn, hole_kappa, file, r, c - 1)]]

\* np.loadtxt of the diagonal eigenvalues file: rows [re, im]
EigenvaluesFile ==
    [r \in 1..NumRows |-> [c \in 1..2 |-> Datum(0, 0, "diag_eigenvalues", r, c - 1)]]

\* np.loadtxt of a diagonal matrix-elements file with cols columns
MatrixElementsFile(cols) ==
    [r \in 1..NumRows |->
        [c \in 1..cols |-> Datum(0, 0, "diag_matrix_elements", r, c - 1)]]

\* the files a load_hole call reads; at most one of them is missing
HoleFiles == {"hf_energies", "omega", "pcur_all", "amp_all", "phaseF_all",
              "phaseG_all"}
ChannelFiles == HoleFiles \ {"hf_energies"}
DiagFiles == {"diag_eigenvalues", "diag_matrix_elements"}

\* --------------------------------------------------------------- the Hole
l_from_kappa(kappa) == IF kappa > 0 THEN kappa ELSE -kappa - 1
j_from_kappa_int(kappa) == 2 * Abs(kappa) - 1

\* construct_hole_name(atom_name, n_qn, hole_kappa): the text that names the
\* hole by its quantum numbers, one text per (n, kappa)
construct_hole_name(n_qn, hole_kappa) == <<"hole", n_qn, hole_kappa>>
\* l_to_str(l): the letter of the orbital angular momentum, one per l
l_to_str(l) == <<"l", l>>

\* Hole(atom_name, hole_kappa, n_qn, binding_energy=binding_energy)
Hole(hole_kappa, n_qn, binding_energy) ==
    [kappa |-> hole_kappa, n |-> n_qn, l |-> l_from_kappa(hole_kappa),
     name |-> construct_hole_name(n_qn, hole_kappa),
     binding_energy |-> binding_energy]

\* the binding energies a caller supplies, and the one the files hold
SuppliedEnergies == {0, 1}
EnergyOnDisk == 10 + disk.version

\* hole._load_binding_energy(...)
load_binding_energy(hole) ==
    [hole EXCEPT !.binding_energy = Some(EnergyOnDisk)]

\* --------------------------------------------------------- IonisationPath
\* self.name: l_to_str(self.l) + "_{%i/2}" % j_from_kappa_int(kappa), a text as
\* the sequence of its two parts
PathName(kappa) == <<l_to_str(l_from_kappa(kappa)), j_from_kappa_int(kappa)>>

\* the index counted in the raw file, whose column 0 is the photon energy
IonisationPath_FileColumn(kappa, col_idx) ==
    [kappa |-> kappa, l |-> l_from_kappa(kappa), j |-> j_from_kappa_int(kappa),
     name |-> PathName(kappa), column_index |-> col_idx + 1]

IonisationPath(kappa, col_idx) ==
    [kappa |-> kappa, l |-> l_from_kappa(kappa), j |-> j_from_kappa_int(kappa),
     name |-> PathName(kappa), column_index |-> col_idx]

\* ---------------------------------------------------------------- Channels
\* The path dict is a sequence of entries [key, value] in insertion order.
DictHas(d, key) == \E i \in 1..Len(d) : d[i].key = key
DictGet(d, key) == d[CHOOSE i \in 1..Len(d) : d[i].key = key].value
DictKeys(d) == [i \in 1..Len(d) |-> d[i].key]
\* d[key] = value
DictSet(d, key, value) ==
    IF DictHas(d, key)
    THEN [i \in 1..Len(d) |->
            IF d[i].key = key THEN [key |-> key, value |-> value] ELSE d[i]]
    ELSE Append(d, [key |-> key, value |-> value])

\* every candidate recorded, the forbidden one too
RecordsPath_Always(kappa, reachable_final_kappas) == TRUE

\* `if kappa in reachable_final_kappas`
RecordsPath(kappa, reachable_final_kappas) ==
    InList(kappa, reachable_final_kappas)

\* the index advanced only past a recorded channel
NextColumnIndex_Renumber(kappa, reachable_final_kappas, column_index) ==
    IF InList(kappa, reachable_final_kappas) THEN column_index + 1
    ELSE column_index

\* `column_index += 1`, at the end of every iteration
NextColumnIndex(kappa, reachable_final_kappas, column_index) ==
    column_index + 1

\* the loop `for kappa in possible_final_kappas`
RECURSIVE AddPathsLoop(_, _, _, _)
AddPathsLoop(paths, possible_final_kappas, reachable_final_kappas, column_index) ==
    IF possible_final_kappas = <<>> THEN paths
    ELSE LET kappa == Head(possible_final_kappas)
         IN  AddPathsLoop(
                 IF RecordsPath(kappa, reachable_final_kappas)
                 THEN DictSet(paths, kappa, IonisationPath(kappa, column_index))
                 ELSE paths,
                 Tail(possible_final_kappas),
                 reachable_final_kappas,
                 NextColumnIndex(kappa, reachable_final_kappas, column_index))

\* Channels.__add_ionisation_path
add_ionisation_path(hole) ==
    AddPathsLoop(<<>>, final_kappas(hole.kappa, FALSE),
                 final_kappas(hole.kappa, TRUE), 0)

\* Channels.__init__ when every file loads
Channels(id, hole) ==
    [id |-> id,
     hole |-> hole,
     ionisation_paths |-> add_ionisation_path(hole),
     raw_omega_data |-> OmegaFile(hole.n, hole.kappa),
     raw_rate_data |-> DropFirstColumn(TableFile(hole.n, hole.kappa, "pcur_all")),
     raw_amp_data |-> DropFirstColumn(TableFile(hole.n, hole.kappa, "amp_all")),
     raw_phaseF_data |-> DropFirstColumn(TableFile(hole.n, hole.kappa, "phaseF_all")),
     raw_phaseG_data |-> DropFirstColumn(TableFile(hole.n, hole.kappa, "phaseG_all"))]

\* The accessors are pure: each is an operator whose result is
\* [ok |-> TRUE, value |-> v] or [ok |-> FALSE, error |-> e].
Ok(v) == [ok |-> TRUE, value |-> v]
Error(e) == [ok |-> FALSE, error |-> e]

check_ionisation_path(ch, final_kappa) == DictHas(ch.ionisation_paths, final_kappa)

\* a missing key answered with a path of column 0 instead of the assertion
get_ionisation_path_Default(ch, final_kappa) ==
    IF ~check_ionisation_path(ch, final_kappa)
    THEN Ok(IonisationPath(final_kappa, 0))
    ELSE Ok(DictGet(ch.ionisation_paths, final_kappa))

\* Channels.get_ionisation_path, with assert_ionisation_path
get_ionisation_path(ch, final_kappa) ==
    IF ~check_ionisation_path(ch, final_kappa) THEN Error("AssertionError")
    ELSE Ok(DictGet(ch.ionisation_paths, final_kappa))

\* table[ionisation_path.column_index, :], a row instead of a column
RawColumn_Row(ch, table, final_kappa) ==
    LET ionisation_path == get_ionisation_path(ch, final_kappa)
    IN  IF ~ionisation_path.ok THEN ionisation_path
        ELSE IF ionisation_path.value.column_index >= Len(table)
             THEN Error("IndexError")
             ELSE Ok(table[ionisation_path.value.column_index + 1])

\* table[:, ionisation_path.column_index]
RawColumn(ch, table, final_kappa) ==
    LET ionisation_path == get_ionisation_path(ch, final_kappa)
    IN  IF ~ionisation_path.ok THEN ionisation_path
        ELSE IF ~ColumnInRange(table, ionisation_path.value.column_index)
             THEN Error("IndexError")
             ELSE Ok(Column(table, ionisation_path.value.column_index))

get_raw_omega_data(ch) == ch.raw_omega_data
get_raw_rate(ch, final_kappa) == RawColumn(ch, ch.raw_rate_data, final_kappa)
get_raw_amp_data(ch, final_kappa) == RawColumn(ch, ch.raw_amp_data, final_kappa)
get_raw_phaseF_data(ch, final_kappa) == RawColumn(ch, ch.raw_phaseF_data, final_kappa)
get_raw_phaseG_data(ch, final_kappa) == RawColumn(ch, ch.raw_phaseG_data, final_kappa)
get_hole_object(ch) == ch.hole

\* ---------------------------------------------------------------- OnePhoton
Ns == 1..MaxN
Kappas == (-MaxKappa..MaxKappa) \ {0}
BindingEnergies == {None} \cup {Some(e) : e \in SuppliedEnergies}

\* `last` names the most recent call, its should_reload argument and how it
\* ended: "skipped" (nothing to do), "error" (an exception left the call) or
\* "loaded".
Outcome(op, should_reload, result) ==
    [op |-> op, should_reload |-> should_reload, result |-> result]

\* `last_load` holds the arguments of the load_hole call that constructed the
\* newest Channels object, and what that call saw: was_loaded tells whether
\* (n_qn, hole_kappa) was a key of the registry when the call began,
\* is_loaded is the value the call itself computed, previous is the object
\* the key held before (if any), version the version of the files it read.
NoLoad ==
    [n_qn |-> 0, hole_kappa |-> 0, should_reload |-> FALSE,
     binding_energy |-> None, was_loaded |-> FALSE, is_loaded |-> FALSE,
     loader_called |-> FALSE, previous |-> None, version |-> 0]

\* OnePhoton.__init__
InitRegistry ==
    /\ channels = <<>>
    /\ num_channels = 0
    /\ diag_eigenvalues = None
    /\ diag_matrix_elements = None
    /\ diag_loaded = FALSE
    /\ next_id = 1
    /\ diag_reads = 0
    /\ last = Outcome("none", FALSE, "none")
    /\ last_load = NoLoad

InitDisk == disk \in [version : {0}, layout : {"reachable", "candidates"}]

NoApplication == [hole_kappa |-> 1, only_reachable |-> TRUE, result |-> None]

\* two threads that share one OnePhoton object; each has made no call yet
Threads == {"a", "b"}
NoFrame ==
    [n_qn |-> 0, hole_kappa |-> 0, is_loaded |-> None, ch |-> None,
     seen |-> None, diag_loaded |-> None, read |-> None]
NoCalls ==
    /\ pc = [t \in Threads |-> "idle"]
    /\ frame = [t \in Threads |-> NoFrame]

Init ==
    /\ InitRegistry
    /\ InitDisk
    /\ fk = NoApplication
    /\ built = None
    /\ NoCalls

\* OnePhoton.is_hole_loaded(n_qn, hole_kappa)
is_hole_loaded(n_qn, hole_kappa) == <<n_qn, hole_kappa>> \in DOMAIN channels

\* `is_loaded = self.is_hole_loaded(hole_kappa, n_qn)` in load_hole
LoadHoleIsLoaded(n_qn, hole_kappa) == is_hole_loaded(hole_kappa, n_qn)

\* should_reload ignored
MustLoad_NoReload(is_loaded, should_reload) == ~is_loaded
\* the condition left out: every call loads
MustLoad_Always(is_loaded, should_reload) == TRUE
\* the test of the loaded state left out: only a reload loads
MustLoad_OnlyReload(is_loaded, should_reload) == should_reload

\* `if not is_loaded or should_reload`
MustLoad(is_loaded, should_reload) == ~is_loaded \/ should_reload

\* `if not binding_energy`: None and 0 are both falsy
LoadsBindingEnergy(binding_energy) ==
    binding_energy = None \/ binding_energy[1] = 0

\* `self.__channels[(n_qn, hole_kappa)] = ...`
\* the map made anew around the one entry
StoreChannels_Fresh(n_qn, hole_kappa, ch) == [key \in {<<n_qn, hole_kappa>>} |-> ch]

StoreChannels(n_qn, hole_kappa, ch) ==
    [key \in DOMAIN channels \cup {<<n_qn, hole_kappa>>} |->
        IF key = <<n_qn, hole_kappa>> THEN ch ELSE channels[key]]

\* `self.num_channels += 1`, reached whenever a Channels object was stored
CountLoad == num_channels + 1

\* OnePhoton.load_hole; `missing` is the file that cannot be read, if any
\* the load counted before the files are read
load_hole_raises_Counted(should_reload) ==
    /\ last' = Outcome("load_hole", should_reload, "error")
    /\ num_channels' = CountLoad
    /\ UNCHANGED <<channels, next_id, last_load, diag, disk, scratch>>

\* an exception leaves load_hole before line 483: nothing has been assigned
load_hole_raises(should_reload) ==
    /\ last' = Outcome("load_hole", should_reload, "error")
    /\ UNCHANGED <<holes, diag, disk, scratch>>

load_hole(n_qn, hole_kappa, binding_energy, should_reload, missing) ==
    LET is_loaded == LoadHoleIsLoaded(n_qn, hole_kappa)
        loads_energy == LoadsBindingEnergy(binding_energy)
        new_hole == Hole(hole_kappa, n_qn, binding_energy)
        hole == IF loads_energy THEN load_binding_energy(new_hole) ELSE new_hole
        was_loaded == is_hole_loaded(n_qn, hole_kappa)
    IN  IF ~MustLoad(is_loaded, should_reload)
        THEN /\ last' = Outcome("load_hole", should_reload, "skipped")
             /\ UNCHANGED <<holes, diag, disk, scratch>>
        ELSE IF loads_energy /\ missing = "hf_energies"
        THEN \* hole._load_binding_energy raises
             load_hole_raises(should_reload)
        ELSE IF missing \in ChannelFiles
        THEN \* load_raw_data raises inside Channels.__init__
             load_hole_raises(should_reload)
        ELSE /\ next_id <= MaxLoads
             /\ channels' = StoreChannels(n_qn, hole_kappa, Channels(next_id, hole))
             /\ num_channels' = CountLoad
             /\ next_id' = next_id + 1
             /\ last' = Outcome("load_hole", should_reload, "loaded")
             /\ last_load' =
                    [n_qn |-> n_qn, hole_kappa |-> hole_kappa,
                     should_reload |-> should_reload,
                     binding_energy |-> binding_energy,
                     was_loaded |-> was_loaded, is_loaded |-> is_loaded,
                     loader_called |-> loads_energy,
                     previous |-> IF was_loaded
                                  THEN Some(channels[<<n_qn, hole_kappa>>])
                                  ELSE None,
                     version |-> disk.version]
             /\ UNCHANGED <<diag, disk, scratch>>

\* OnePhoton.assert_hole_load: the assertion holds
assert_hole_load(n_qn, hole_kappa) == is_hole_loaded(n_qn, hole_kappa)

\* a missing key answered with None, as dict.get answers it
get_channels_for_hole_Default(n_qn, hole_kappa) ==
    IF ~assert_hole_load(n_qn, hole_kappa) THEN Ok(None)
    ELSE Ok(channels[<<n_qn, hole_kappa>>])

\* OnePhoton.get_channels_for_hole
get_channels_for_hole(n_qn, hole_kappa) ==
    IF ~assert_hole_load(n_qn, hole_kappa) THEN Error("AssertionError")
    ELSE Ok(channels[<<n_qn, hole_kappa>>])

\* hole_name + " to " + ionisation_path.name
Label(hole_name, path_name) == <<hole_name, "to", path_name>>

\* the order of the keys turned around
LabelledKeys_Reversed(ch) ==
    [i \in 1..Len(ch.ionisation_paths) |->
        ch.ionisation_paths[Len(ch.ionisation_paths) + 1 - i].key]

\* for final_kappa in ionisation_paths.keys()
LabelledKeys(ch) == DictKeys(ch.ionisation_paths)

\* OnePhoton.get_channel_labels_for_hole
get_channel_labels_for_hole(n_qn, hole_kappa) ==
    IF ~assert_hole_load(n_qn, hole_kappa) THEN Error("AssertionError")
    ELSE LET got == get_channels_for_hole(n_qn, hole_kappa)
         IN IF ~got.ok THEN got
            ELSE LET hole_name == get_hole_object(got.value).name
                     keys == LabelledKeys(got.value)
                 IN Ok([i \in 1..Len(keys) |->
                           Label(hole_name,
                                 get_ionisation_path(got.value, keys[i]).value.name)])

\* OnePhoton.__load_diag_eigenvalues: eigvals_re + 1j * eigvals_im
load_diag_eigenvalues(read) ==
    [read |-> read,
     data |-> [r \in 1..Len(EigenvaluesFile) |->
                  <<EigenvaluesFile[r][1], EigenvaluesFile[r][2]>>]]

\* OnePhoton.__load_diag_matrix_elements
load_diag_matrix_elements(read, cols) ==
    LET matrix_elements_raw == LastTwoColumns(MatrixElementsFile(cols))
    IN  [read |-> read, cols |-> cols,
         data |-> [r \in 1..Len(matrix_elements_raw) |->
                      <<matrix_elements_raw[r][1], matrix_elements_raw[r][2]>>]]

\* OnePhoton.load_diag_data; cols is the width of the matrix-elements file,
\* `missing` the file that cannot be read, if any. Each stored array carries
\* the number of the call that read it, the matrix elements also the width of
\* the file they were read from.
load_diag_data(should_reload, cols, missing) ==
    IF ~MustLoad(diag_loaded, should_reload)
    THEN /\ last' = Outcome("load_diag_data", should_reload, "skipped")
         /\ UNCHANGED <<holes, diag, disk, scratch>>
    ELSE /\ diag_reads < MaxDiagLoads
         /\ diag_reads' = diag_reads + 1
         /\ UNCHANGED <<holes, disk, scratch>>
         /\ IF missing = "diag_eigenvalues"
            THEN /\ last' = Outcome("load_diag_data", should_reload, "error")
                 /\ UNCHANGED <<diag_eigenvalues, diag_matrix_elements, diag_loaded>>
            ELSE /\ diag_eigenvalues' = Some(load_diag_eigenvalues(diag_reads'))
                 /\ IF missing = "diag_matrix_elements"
                    THEN /\ last' = Outcome("load_diag_data", should_reload, "error")
                         /\ UNCHANGED <<diag_matrix_elements, diag_loaded>>
                    ELSE /\ diag_matrix_elements' =
                                Some(load_diag_matrix_elements(diag_reads', cols))
                         /\ diag_loaded' = TRUE
                         /\ last' = Outcome("load_diag_data", should_reload, "loaded")

\* the flag replaced by a look at the stored eigenvalues
assert_diag_data_load_AnyData == diag_eigenvalues # None

\* OnePhoton.assert_diag_data_load: the assertion holds
assert_diag_data_load == diag_loaded

\* OnePhoton.get_diag_matrix_elements
get_diag_matrix_elements ==
    IF ~assert_diag_data_load THEN Error("AssertionError")
    ELSE Ok(diag_matrix_elements)

\* OnePhoton.get_diag_eigenvalues
get_diag_eigenvalues ==
    IF ~assert_diag_data_load THEN Error("AssertionError")
    ELSE Ok(diag_eigenvalues)

\* the simulation is run again and rewrites every data file
RewriteFiles ==
    /\ disk.version < MaxVersion
    /\ disk' = [disk EXCEPT !.version = @ + 1]
    /\ UNCHANGED <<holes, diag, last, scratch>>

LoadHole ==
    \E n_qn \in Ns, hole_kappa \in Kappas, binding_energy \in BindingEnergies,
       should_reload \in BOOLEAN, missing \in HoleFiles \cup {"none"} :
        load_hole(n_qn, hole_kappa, binding_energy, should_reload, missing)

LoadDiagData ==
    \E should_reload \in BOOLEAN, cols \in 2..MaxDiagCols,
       missing \in DiagFiles \cup {"none"} :
        load_diag_data(should_reload, cols, missing)

\* the registry as a whole
Next == LoadHole \/ LoadDiagData \/ RewriteFiles
Spec == Init /\ [][Next]_vars

\* the holes alone
NextHoles == LoadHole \/ RewriteFiles
SpecHoles == Init /\ [][NextHoles]_vars

\* one hole alone: every load_hole call that loads names the hole the
\* registry already holds, if it holds one
LoadSameHole ==
    \E n_qn \in Ns, hole_kappa \in Kappas, binding_energy \in BindingEnergies,
       should_reload \in BOOLEAN, missing \in HoleFiles \cup {"none"} :
        /\ DOMAIN channels \subseteq {<<n_qn, hole_kappa>>}
        /\ load_hole(n_qn, hole_kappa, binding_energy, should_reload, missing)

NextOneHole == LoadSameHole \/ RewriteFiles
SpecOneHole == Init /\ [][NextOneHole]_vars

\* many holes, the binding energy supplied by the caller and the files left
\* as they are: a call finds every file, or the photon energies missing
LoadSuppliedHole ==
    \E n_qn \in Ns, hole_kappa \in Kappas, should_reload \in BOOLEAN,
       missing \in {"none", "omega"} :
        load_hole(n_qn, hole_kappa, Some(1), should_reload, missing)

SpecManyHoles == Init /\ [][LoadSuppliedHole]_vars

\* holes and diagonal data together, every file found: load_hole on any hole
\* with the binding energy supplied, load_diag_data on a file of two columns
LoadFoundHole ==
    \E n_qn \in Ns, hole_kappa \in Kappas, should_reload \in BOOLEAN :
        load_hole(n_qn, hole_kappa, Some(1), should_reload, "none")

LoadFoundDiagData ==
    \E should_reload \in BOOLEAN : load_diag_data(should_reload, 2, "none")

NextFrame == LoadFoundHole \/ LoadFoundDiagData
SpecFrame == Init /\ [][NextFrame]_vars

\* ------------------------------------------------- interleaved calls
\* Two threads call load_hole and then load_diag_data on the shared object,
\* both with should_reload = False and every file found, without a lock.
\* A step of a thread is one statement of the method that reads or writes
\* the shared object.

\* load_hole line 427 and the condition of line 429
HoleCheck(t) ==
    /\ pc[t] = "idle"
    /\ \E n_qn \in Ns, hole_kappa \in Kappas :
          LET is_loaded == LoadHoleIsLoaded(n_qn, hole_kappa)
          IN  /\ frame' = [frame EXCEPT ![t].n_qn = n_qn,
                                        ![t].hole_kappa = hole_kappa,
                                        ![t].is_loaded = Some(is_loaded)]
              /\ IF MustLoad(is_loaded, FALSE)
                 THEN /\ pc' = [pc EXCEPT ![t] = "construct"]
                      /\ UNCHANGED last
                 ELSE /\ pc' = [pc EXCEPT ![t] = "diag_check"]
                      /\ last' = Outcome("load_hole", FALSE, "skipped")
    /\ UNCHANGED <<holes, diag, disk, fk, built>>

\* load_hole lines 449-490, right-hand side: the Hole and the Channels
HoleConstruct(t) ==
    /\ pc[t] = "construct"
    /\ next_id <= MaxLoads
    /\ frame' = [frame EXCEPT ![t].ch =
                     Some(Channels(next_id, Hole(frame[t].hole_kappa,
                                                 frame[t].n_qn, Some(1))))]
    /\ next_id' = next_id + 1
    /\ pc' = [pc EXCEPT ![t] = "store"]
    /\ UNCHANGED <<channels, num_channels, last_load, diag, disk, last, fk, built>>

\* load_hole line 483: the assignment to self.__channels[(n_qn, hole_kappa)]
HoleStore(t) ==
    /\ pc[t] = "store"
    /\ channels' = StoreChannels(frame[t].n_qn, frame[t].hole_kappa, frame[t].ch[1])
    /\ pc' = [pc EXCEPT ![t] = "count_read"]
    /\ UNCHANGED <<num_channels, next_id, last_load, diag, disk, last, fk, built, frame>>

\* load_hole line 491, self.num_channels += 1: the read of the attribute
HoleCountRead(t) ==
    /\ pc[t] = "count_read"
    /\ frame' = [frame EXCEPT ![t].seen = Some(num_channels)]
    /\ pc' = [pc EXCEPT ![t] = "count_write"]
    /\ UNCHANGED <<holes, diag, disk, last, fk, built>>

\* load_hole line 491, self.num_channels += 1: the write of the attribute
HoleCountWrite(t) ==
    /\ pc[t] = "count_write"
    /\ num_channels' = frame[t].seen[1] + 1
    /\ last' = Outcome("load_hole", FALSE, "loaded")
    /\ pc' = [pc EXCEPT ![t] = "diag_check"]
    /\ UNCHANGED <<channels, next_id, last_load, diag, disk, fk, built, frame>>

\* load_diag_data line 306: the test of self.__diag_loaded
DiagCheck(t) ==
    /\ pc[t] = "diag_check"
    /\ IF MustLoad(diag_loaded, FALSE)
       THEN /\ diag_reads < MaxDiagLoads
            /\ diag_reads' = diag_reads + 1
            /\ frame' = [frame EXCEPT ![t].diag_loaded = Some(diag_loaded),
                                      ![t].read = Some(diag_reads')]
            /\ pc' = [pc EXCEPT ![t] = "diag_eigenvalues"]
            /\ UNCHANGED last
       ELSE /\ frame' = [frame EXCEPT ![t].diag_loaded = Some(diag_loaded)]
            /\ pc' = [pc EXCEPT ![t] = "done"]
            /\ last' = Outcome("load_diag_data", FALSE, "skipped")
            /\ UNCHANGED diag_reads
    /\ UNCHANGED <<holes, diag_eigenvalues, diag_matrix_elements, diag_loaded,
                   disk, fk, built>>

\* load_diag_data line 322
DiagEigenvalues(t) ==
    /\ pc[t] = "diag_eigenvalues"
    /\ diag_eigenvalues' = Some(load_diag_eigenvalues(frame[t].read[1]))
    /\ pc' = [pc EXCEPT ![t] = "diag_matrix_elements"]
    /\ UNCHANGED <<holes, diag_matrix_elements, diag_loaded, diag_reads, disk,
                   last, fk, built, frame>>

\* load_diag_data line 323
DiagMatrixElements(t) ==
    /\ pc[t] = "diag_matrix_elements"
    /\ diag_matrix_elements' = Some(load_diag_matrix_elements(frame[t].read[1], 2))
    /\ pc' = [pc EXCEPT ![t] = "diag_flag"]
    /\ UNCHANGED <<holes, diag_eigenvalues, diag_loaded, diag_reads, disk,
                   last, fk, built, frame>>

\* load_diag_data line 324
DiagFlag(t) ==
    /\ pc[t] = "diag_flag"
    /\ diag_loaded' = TRUE
    /\ last' = Outcome("load_diag_data", FALSE, "loaded")
    /\ pc' = [pc EXCEPT ![t] = "done"]
    /\ UNCHANGED <<holes, diag_eigenvalues, diag_matrix_elements, diag_reads,
                   disk, fk, built, frame>>

NextRace ==
    \E t \in Threads :
        \/ HoleCheck(t)
        \/ HoleConstruct(t)
        \/ HoleStore(t)
        \/ HoleCountRead(t)
        \/ HoleCountWrite(t)
        \/ DiagCheck(t)
        \/ DiagEigenvalues(t)
        \/ DiagMatrixElements(t)
        \/ DiagFlag(t)

SpecRace == Init /\ [][NextRace]_vars

\* the diagonal data alone
NextDiag == LoadDiagData \/ RewriteFiles
SpecDiag == Init /\ [][NextDiag]_vars

\* final_kappas alone: any kappa, both values of only_reachable
InitKappa ==
    /\ InitRegistry
    /\ disk = [version |-> 0, layout |-> "reachable"]
    /\ built = None
    /\ NoCalls
    /\ fk \in [hole_kappa : -KappaRange..KappaRange, only_reachable : BOOLEAN,
               result : {None}]

ApplyFinalKappas ==
    /\ fk.result = None
    /\ fk' = [fk EXCEPT !.result = Some(final_kappas(fk.hole_kappa, fk.only_reachable))]
    /\ UNCHANGED <<holes, diag, disk, last, built, threads>>

SpecKappa == InitKappa /\ [][ApplyFinalKappas]_vars

\* Channels alone: a Channels object constructed for any hole
BuildChannels ==
    \E n_qn \in Ns, hole_kappa \in (-KappaRange..KappaRange) \ {0} :
        /\ built' = Some(Channels(0, Hole(hole_kappa, n_qn, None)))
        /\ UNCHANGED <<holes, diag, disk, last, fk, threads>>

NextChannels == BuildChannels \/ RewriteFiles
SpecChannels == Init /\ [][NextChannels]_vars

\* ================================================================ properties
\* helpers of the properties
SomeLoad == last_load.n_qn # 0
NewestKey == <<last_load.n_qn, last_load.hole_kappa>>
\* the version of the files a Channels object was read from
ChannelsVersion(ch) == DatumVersion(ch.raw_omega_data[1])
\* the per-channel tables of a Channels object
Tables(ch) == {ch.raw_rate_data, ch.raw_amp_data, ch.raw_phaseF_data,
               ch.raw_phaseG_data}
\* the three candidate slots of a hole kappa, written out
Slot(hole_kappa, i) ==
    LET m == IF hole_kappa < 0 THEN -hole_kappa ELSE hole_kappa
        s == IF hole_kappa < 0 THEN -1 ELSE 1
    IN  CASE i = 1 -> s * (m - 1)
          [] i = 2 -> -(s * m)
          [] i = 3 -> s * (m + 1)
OpenSlots(hole_kappa) == {i \in 1..3 : Slot(hole_kappa, i) # 0}

\* C1: a load_hole call with should_reload = FALSE for an (n, kappa) that is
\* already in the registry is a no-op: no Channels object is ever constructed
\* by such a call (so the registry keeps the identical object and
\* num_channels its value).
C1_RepeatedLoadIsNoOp ==
    SomeLoad => ~(last_load.was_loaded /\ ~last_load.should_reload)

\* C2: num_channels equals the number of distinct (n, kappa) keys of the
\* registry's channel map.
C2_CounterCountsKeys == num_channels = Cardinality(DOMAIN channels)

\* C3 (as stated): for a Channels object built from per-channel files whose
\* width equals the number of reachable channels, every recorded
\* column_index is within every stored table.
C3_IndexWithinReachableWidth ==
    (built # None /\ disk.layout = "reachable") =>
        LET ch == built[1]
        IN  \A t \in Tables(ch) :
                /\ Width(t) = Len(final_kappas(ch.hole.kappa, TRUE))
                /\ \A i \in 1..Len(ch.ionisation_paths) :
                       ColumnInRange(t, ch.ionisation_paths[i].value.column_index)

\* C3 (amended): every recorded column_index is within every stored table
\* whenever the tables hold one data column per candidate slot (three), which
\* for files as wide as the number of reachable channels is the case exactly
\* when no candidate is forbidden (|kappa| >= 2).
C3_IndexWithinCandidateWidth ==
    built # None =>
        LET ch == built[1]
        IN  \A t \in Tables(ch) :
                /\ (disk.layout = "reachable" /\ ch.hole.kappa \notin {-1, 1})
                       => Width(t) = 3
                /\ disk.layout = "candidates" => Width(t) = 3
                /\ Width(t) = 3 =>
                       \A i \in 1..Len(ch.ionisation_paths) :
                           ColumnInRange(t, ch.ionisation_paths[i].value.column_index)

\* a hole with a forbidden channel whose tables keep the forbidden column
C3_Witness ==
    /\ built # None
    /\ built[1].hole.kappa = 1
    /\ Width(built[1].raw_rate_data) = 3
    /\ DictGet(built[1].ionisation_paths, 2).column_index = 2

\* C4: column_index is the position in the candidate list
\* [s*(m-1), -s*m, s*(m+1)]: 0, 1, 2 when all three are reachable, and 1, 2
\* (not 0, 1) for the two reachable channels of a hole whose first candidate
\* is forbidden.
C4_IndexIsCandidatePosition ==
    built # None =>
        LET ch == built[1]
            paths == ch.ionisation_paths
        IN  /\ \A i \in OpenSlots(ch.hole.kappa) :
                   /\ DictHas(paths, Slot(ch.hole.kappa, i))
                   /\ DictGet(paths, Slot(ch.hole.kappa, i)).column_index = i - 1
            /\ ch.hole.kappa \notin {-1, 1} =>
                   [i \in 1..Len(paths) |-> paths[i].value.column_index] = <<0, 1, 2>>
            /\ ch.hole.kappa \in {-1, 1} =>
                   [i \in 1..Len(paths) |-> paths[i].value.column_index] = <<1, 2>>

C4_Witness ==
    /\ built # None
    /\ built[1].hole.kappa = -1
    /\ DictKeys(built[1].ionisation_paths) = <<1, -2>>
    /\ DictGet(built[1].ionisation_paths, 1).column_index = 1
    /\ DictGet(built[1].ionisation_paths, -2).column_index = 2

\* C5 (as stated): after a load from files whose rate table is as wide as the
\* number of reachable channels, get_raw_rate(k) succeeds for every
\* reachable k and returns a column as long as the energy grid.
C5_RateOfReachableWidth ==
    (built # None /\ disk.layout = "reachable") =>
        LET ch == built[1]
            reachable == final_kappas(ch.hole.kappa, TRUE)
        IN  \A i \in 1..Len(reachable) :
                /\ get_raw_rate(ch, reachable[i]).ok
                /\ Len(get_raw_rate(ch, reachable[i]).value)
                       = Len(get_raw_omega_data(ch))

\* C5 (amended): when the rate table holds one data column per candidate slot
\* (three), get_raw_rate(k) succeeds for every reachable k and returns the
\* column of that slot, as long as the energy grid; with a table as wide as
\* the number of reachable channels this covers the holes with |kappa| >= 2.
C5_RateOfCandidateWidth ==
    (built # None /\ Width(built[1].raw_rate_data) = 3) =>
        LET ch == built[1]
        IN  \A i \in OpenSlots(ch.hole.kappa) :
                LET rate == get_raw_rate(ch, Slot(ch.hole.kappa, i))
                IN  /\ rate.ok
                    /\ Len(rate.value) = Len(get_raw_omega_data(ch))
                    /\ \A r \in 1..Len(rate.value) :
                           rate.value[r] =
                               DatumOf(ChannelsVersion(ch), ch.hole.n,
                                       ch.hole.kappa, "pcur_all", r, i)

C5_Witness ==
    /\ built # None
    /\ built[1].hole.kappa = 1
    /\ disk.layout = "candidates"
    /\ get_raw_rate(built[1], 2).ok
    /\ Len(get_raw_rate(built[1], 2).value) = NumRows

\* C6: load_hole with should_reload = TRUE is never skipped, and when it
\* succeeds on an already-loaded (n, kappa) the registry holds for that key a
\* newly constructed Channels object (not the previous one), read from the
\* files as they were at the time of the call, and get_channels_for_hole
\* returns it.
C6_ReloadReplaces ==
    /\ (last.op = "load_hole" /\ last.should_reload) => last.result # "skipped"
    /\ (SomeLoad /\ last_load.was_loaded /\ last_load.should_reload) =>
           LET got == get_channels_for_hole(last_load.n_qn, last_load.hole_kappa)
           IN  /\ got.ok
               /\ got.value.id # last_load.previous[1].id
               /\ got.value.id = next_id - 1
               /\ ChannelsVersion(got.value) = last_load.version
               /\ \A t \in Tables(got.value) :
                      \A r \in 1..Len(t) : \A c \in 1..Len(t[r]) :
                          DatumVersion(t[r][c]) = last_load.version

\* a reload of a hole whose files were rewritten after its first load
C6_Witness ==
    /\ SomeLoad /\ last_load.was_loaded /\ last_load.should_reload
    /\ last_load.n_qn = last_load.hole_kappa
    /\ ChannelsVersion(last_load.previous[1]) = 0
    /\ ChannelsVersion(channels[NewestKey]) = 1

\* C7: in a load_hole call that loads, the binding-energy loader is invoked
\* if and only if binding_energy is None; any supplied value, 0 included,
\* suppresses it.
C7_LoaderIffNotSupplied ==
    SomeLoad => (last_load.loader_called <=> last_load.binding_energy = None)

\* C8: the diagonal data is fully absent, or fully present with both arrays
\* read by the same load_diag_data call.
C8_DiagAllOrNothing ==
    \/ /\ diag_eigenvalues = None
       /\ diag_matrix_elements = None
       /\ ~diag_loaded
    \/ /\ diag_eigenvalues # None
       /\ diag_matrix_elements # None
       /\ diag_loaded
       /\ diag_eigenvalues[1].read = diag_matrix_elements[1].read

\* C9: for nonzero kappa, final_kappas with only_reachable = TRUE is the
\* candidate list [s*(m-1), -s*m, s*(m+1)] without its zero entries, in
\* order: 1 to 3 pairwise distinct nonzero values, [-1, 2] for kappa = 1 and
\* [1, -2] for kappa = -1; with only_reachable = FALSE it is the three
\* candidates in that order.
C9_FinalKappas ==
    (fk.result # None /\ fk.hole_kappa # 0) =>
        LET k == fk.hole_kappa
            r == fk.result[1]
            open == OpenSlots(k)
        IN  IF fk.only_reachable
            THEN /\ Len(r) = Cardinality(open)
                 /\ Len(r) \in 1..3
                 /\ \A i \in open :
                        r[i - (3 - Len(r))] = Slot(k, i)
                 /\ \A i \in 1..Len(r) : r[i] # 0
                 /\ \A i, j \in 1..Len(r) : i # j => r[i] # r[j]
                 /\ k = 1 => r = <<-1, 2>>
                 /\ k = -1 => r = <<1, -2>>
            ELSE r = <<Slot(k, 1), Slot(k, 2), Slot(k, 3)>>

C9_Witness ==
    /\ fk.hole_kappa = 1
    /\ fk.only_reachable
    /\ fk.result = Some(<<-1, 2>>)

\* C10: the keys of the path map of a Channels object are exactly the
\* reachable final kappas of its hole: 1 to 3 entries, none with kappa = 0,
\* each entry's kappa equal to its key, column indices pairwise distinct.
C10_PathKeysAreReachable ==
    built # None =>
        LET ch == built[1]
            paths == ch.ionisation_paths
        IN  /\ {paths[i].key : i \in 1..Len(paths)}
                   = {Slot(ch.hole.kappa, i) : i \in OpenSlots(ch.hole.kappa)}
            /\ DictKeys(paths) = final_kappas(ch.hole.kappa, TRUE)
            /\ Len(paths) \in 1..3
            /\ \A i \in 1..Len(paths) :
                   /\ paths[i].key # 0
                   /\ paths[i].value.kappa = paths[i].key
            /\ \A i, j \in 1..Len(paths) :
                   i # j => /\ paths[i].key # paths[j].key
                            /\ paths[i].value.column_index
                                   # paths[j].value.column_index

C10_Witness ==
    /\ built # None
    /\ built[1].hole.kappa = 2
    /\ DictKeys(built[1].ionisation_paths) = <<1, -2, 3>>

\* the final kappas an accessor is asked for
FinalKappas == -(KappaRange + 1)..(KappaRange + 1)
\* the five per-channel accessors of a Channels object, applied to a kappa
Accessors(ch, final_kappa) ==
    {get_ionisation_path(ch, final_kappa), get_raw_rate(ch, final_kappa),
     get_raw_amp_data(ch, final_kappa), get_raw_phaseF_data(ch, final_kappa),
     get_raw_phaseG_data(ch, final_kappa)}

\* C11: for a final kappa that is not a key of the path map (0 and every
\* kappa outside the reachable set included), get_ionisation_path,
\* get_raw_rate, get_raw_amp_data, get_raw_phaseF_data and
\* get_raw_phaseG_data all fail with the assertion of assert_ionisation_path
\* and return nothing.
C11_UnknownChannelFails ==
    built # None =>
        \A final_kappa \in FinalKappas :
            final_kappa \notin {Slot(built[1].hole.kappa, i) :
                                   i \in OpenSlots(built[1].hole.kappa)}
            => \A result \in Accessors(built[1], final_kappa) :
                   result = Error("AssertionError")

\* the forbidden channel of a hole with kappa = 1 is asked for
C11_Witness ==
    /\ built # None
    /\ built[1].hole.kappa = 1
    /\ ~check_ionisation_path(built[1], 0)
    /\ get_raw_amp_data(built[1], 0) = Error("AssertionError")
    /\ get_raw_rate(built[1], -2) = Error("AssertionError")

\* C12: a hole (n, kappa) that no load_hole call has stored, a failed
\* load_hole(n, kappa) included and whatever other holes are loaded, makes
\* get_channels_for_hole and get_channel_labels_for_hole fail with the
\* assertion of assert_hole_load; and a hole is stored only under its own
\* (n, kappa).
C12_UnloadedHoleFails ==
    \A n_qn \in Ns, hole_kappa \in Kappas :
        IF <<n_qn, hole_kappa>> \in DOMAIN channels
        THEN /\ channels[<<n_qn, hole_kappa>>].hole.n = n_qn
             /\ channels[<<n_qn, hole_kappa>>].hole.kappa = hole_kappa
        ELSE /\ get_channels_for_hole(n_qn, hole_kappa) = Error("AssertionError")
             /\ get_channel_labels_for_hole(n_qn, hole_kappa)
                    = Error("AssertionError")

\* a load has failed, another hole is loaded, and (1, 1) is asked for
C12_Witness ==
    /\ last = Outcome("load_hole", FALSE, "error")
    /\ DOMAIN channels = {<<2, 1>>}
    /\ get_channels_for_hole(1, 1) = Error("AssertionError")
    /\ get_channel_labels_for_hole(1, 1) = Error("AssertionError")

\* C13: get_diag_eigenvalues and get_diag_matrix_elements fail with the
\* assertion of assert_diag_data_load as long as no load_diag_data call has
\* run to its end (a call that stored the eigenvalues and then failed
\* included); once a call has run to its end they return the stored arrays.
\* The matrix elements are stored by a call exactly when it runs to its end.
C13_DiagGetters ==
    /\ diag_loaded <=> diag_matrix_elements # None
    /\ (last.op = "load_diag_data" /\ last.result = "loaded") => diag_loaded
    /\ IF diag_loaded
       THEN /\ diag_eigenvalues # None
            /\ get_diag_eigenvalues = Ok(diag_eigenvalues)
            /\ get_diag_matrix_elements = Ok(diag_matrix_elements)
       ELSE /\ get_diag_eigenvalues = Error("AssertionError")
            /\ get_diag_matrix_elements = Error("AssertionError")

\* the first call stored the eigenvalues and failed on the matrix elements
C13_Witness ==
    /\ last = Outcome("load_diag_data", FALSE, "error")
    /\ diag_eigenvalues # None
    /\ ~diag_loaded
    /\ get_diag_eigenvalues = Error("AssertionError")
    /\ get_diag_matrix_elements = Error("AssertionError")

\* C14: once the diagonal data is loaded, a load_diag_data call with
\* should_reload = FALSE is skipped: it reads no file and leaves both stored
\* arrays and the flag as they are; the files are read again only by a call
\* with should_reload = TRUE.
C14_LoadDiagIdempotent ==
    [][diag_loaded =>
          /\ (last'.op = "load_diag_data" /\ ~last'.should_reload) =>
                 /\ UNCHANGED diag
                 /\ last' # last => last'.result = "skipped"
          /\ diag_reads' # diag_reads =>
                 (last'.op = "load_diag_data" /\ last'.should_reload)]_vars

\* a call without should_reload has been skipped after the one load
C14_Witness ==
    /\ diag_loaded
    /\ diag_reads = 1
    /\ last = Outcome("load_diag_data", FALSE, "skipped")

\* C15: for a loaded hole get_channel_labels_for_hole returns one label per
\* reachable channel, each the hole's name, " to " and the channel's name, in
\* the order of the candidate list [s*(m-1), -s*m, s*(m+1)] with the zero
\* candidate left out.
C15_LabelsInCandidateOrder ==
    \A key \in DOMAIN channels :
        LET got == get_channel_labels_for_hole(key[1], key[2])
            open == OpenSlots(key[2])
        IN  /\ got.ok
            /\ Len(got.value) = Cardinality(open)
            /\ \A i \in open :
                   got.value[i - (3 - Cardinality(open))] =
                       Label(construct_hole_name(key[1], key[2]),
                             PathName(Slot(key[2], i)))

\* the labels of a hole with kappa = -1, whose first candidate is forbidden
C15_Witness ==
    /\ <<1, -1>> \in DOMAIN channels
    /\ get_channel_labels_for_hole(1, -1) =
           Ok(<<Label(construct_hole_name(1, -1), PathName(1)),
                Label(construct_hole_name(1, -1), PathName(-2))>>)

\* the version of the files a stored diagonal array was read from
DiagVersion(array) == DatumVersion(array.data[1][1])

\* C16: the stored eigenvalue i is (column 0, column 1) of row i of the
\* eigenvalues file, and the stored matrix element i is (second-to-last
\* column, last column) of row i of the matrix-elements file, whatever the
\* number (>= 2) of columns of that file, each as the file was when read.
C16_ComplexReconstruction ==
    /\ diag_eigenvalues # None =>
           LET e == diag_eigenvalues[1]
           IN  /\ Len(e.data) = NumRows
               /\ \A r \in 1..NumRows :
                      e.data[r] =
                          <<DatumOf(DiagVersion(e), 0, 0, "diag_eigenvalues", r, 0),
                            DatumOf(DiagVersion(e), 0, 0, "diag_eigenvalues", r, 1)>>
    /\ diag_matrix_elements # None =>
           LET m == diag_matrix_elements[1]
           IN  /\ Len(m.data) = NumRows
               /\ \A r \in 1..NumRows :
                      m.data[r] =
                          <<DatumOf(DiagVersion(m), 0, 0, "diag_matrix_elements",
                                    r, m.cols - 2),
                            DatumOf(DiagVersion(m), 0, 0, "diag_matrix_elements",
                                    r, m.cols - 1)>>

\* matrix elements read from a file with a leading column to discard
C16_Witness ==
    /\ diag_loaded
    /\ diag_matrix_elements[1].cols = 3
    /\ diag_matrix_elements[1].data[2] =
           <<Datum(0, 0, "diag_matrix_elements", 2, 1),
             Datum(0, 0, "diag_matrix_elements", 2, 2)>>
    /\ diag_eigenvalues[1].data[2] =
           <<Datum(0, 0, "diag_eigenvalues", 2, 0),
             Datum(0, 0, "diag_eigenvalues", 2, 1)>>

\* C17: the presence test load_hole performs at its start for (n, kappa)
\* gives the answer of is_hole_loaded(n, kappa), the key under which
\* load_hole stores the Channels object.
C17_CheckAgreesWithKey ==
    \A n_qn \in Ns, hole_kappa \in Kappas :
        LoadHoleIsLoaded(n_qn, hole_kappa) = is_hole_loaded(n_qn, hole_kappa)

\* C18: a load_hole call that fails (in the binding-energy loader or in any
\* of the five reads of Channels.__init__) ends with the error and leaves
\* the channel map (same keys, same objects) and num_channels as they were;
\* a hole that was not loaded is still not loaded, a hole that was loaded
\* keeps its Channels object.
C18_FailedLoadChangesNothing ==
    [][(last'.op = "load_hole" /\ last'.result = "error") =>
          /\ channels' = channels
          /\ num_channels' = num_channels
          /\ next_id' = next_id]_vars

\* a reload has failed and the hole is still loaded
C18_Witness ==
    /\ last = Outcome("load_hole", TRUE, "error")
    /\ Cardinality(DOMAIN channels) = 1
    /\ num_channels = 1
    /\ \A key \in DOMAIN channels : channels[key].id = 1

\* C19: a load_hole call changes at most the entry of its own key (every
\* other loaded key keeps the identical Channels object, with or without
\* should_reload) and leaves the diagonal arrays and their flag as they are;
\* a load_diag_data call leaves the channel map and num_channels as they are.
C19_Frame ==
    [][/\ last'.op = "load_hole" =>
              /\ UNCHANGED <<diag_eigenvalues, diag_matrix_elements, diag_loaded>>
              /\ \A key \in DOMAIN channels :
                     /\ key \in DOMAIN channels'
                     /\ channels'[key] # channels[key] =>
                            (last'.result = "loaded" /\ key = NewestKey')
              /\ \A key \in DOMAIN channels' \ DOMAIN channels :
                     (last'.result = "loaded" /\ key = NewestKey')
       /\ last'.op = "load_diag_data" => UNCHANGED <<channels, num_channels>>]_vars

\* a hole loaded with should_reload next to another loaded hole, which keeps
\* its object, and to loaded diagonal data
C19_Witness ==
    /\ last = Outcome("load_hole", TRUE, "loaded")
    /\ Cardinality(DOMAIN channels) = 2
    /\ \E key \in DOMAIN channels : key # NewestKey /\ channels[key].id = 1
    /\ diag_loaded

\* the statements of load_hole between its test and its end, and those of
\* load_diag_data between its test and its end
InLoadHole == {"construct", "store", "count_read", "count_write"}
InLoadDiag == {"diag_eigenvalues", "diag_matrix_elements", "diag_flag"}
AfterLoadHole == {"diag_check", "done"} \cup InLoadDiag
\* thread t found its hole not loaded, and the diagonal data not loaded
PassedHoleCheck(t) == frame[t].is_loaded = Some(FALSE)
PassedDiagCheck(t) == frame[t].diag_loaded = Some(FALSE)

\* C20: the test and the store of load_hole are separate steps. A thread
\* that found its hole not loaded goes on to construct a Channels object,
\* store it and increment num_channels whatever the other thread has stored
\* in the meantime, so two interleaved should_reload = False calls for one
\* hole can both pass the test, each construct and store an object, and
\* leave num_channels at 2 (1 if the increments overlap); a thread that
\* found the diagonal data not loaded reads the files whatever the other
\* thread has set in the meantime.
C20_CheckThenAct ==
    /\ \A t \in Threads :
           LET f == frame[t]
               key == <<f.n_qn, f.hole_kappa>>
           IN  /\ pc[t] \in InLoadHole => PassedHoleCheck(t)
               /\ (PassedHoleCheck(t) /\ pc[t] # "construct") => f.ch # None
               /\ ~PassedHoleCheck(t) => f.ch = None
               /\ (f.ch # None /\ pc[t] # "store") =>
                      /\ key \in DOMAIN channels
                      /\ channels[key].hole = f.ch[1].hole
               /\ (PassedHoleCheck(t) /\ pc[t] \in AfterLoadHole) =>
                      /\ f.seen # None
                      /\ num_channels >= f.seen[1] + 1
               /\ pc[t] \in InLoadDiag => PassedDiagCheck(t)
               /\ (PassedDiagCheck(t) /\ pc[t] = "done") =>
                      /\ diag_loaded
                      /\ f.read # None
    /\ \A t, u \in Threads :
           (t # u /\ pc[t] \in AfterLoadHole /\ pc[u] \in AfterLoadHole
                /\ PassedHoleCheck(t) /\ PassedHoleCheck(u)
                /\ frame[t].n_qn = frame[u].n_qn
                /\ frame[t].hole_kappa = frame[u].hole_kappa) =>
               /\ DOMAIN channels = {<<frame[t].n_qn, frame[t].hole_kappa>>}
               /\ frame[t].ch[1].id # frame[u].ch[1].id
               /\ channels[<<frame[t].n_qn, frame[t].hole_kappa>>].id
                      \in {frame[t].ch[1].id, frame[u].ch[1].id}
               /\ num_channels \in {1, 2}
    /\ \A t, u \in Threads :
           (t # u /\ pc[t] = "done" /\ pc[u] = "done"
                /\ PassedDiagCheck(t) /\ PassedDiagCheck(u)) =>
               /\ frame[t].read # frame[u].read
               /\ diag_reads = 2

\* both threads passed the test of load_hole(1, 1), which a second call made
\* after the first would not pass, and both passed the test of
\* load_diag_data; one key, two objects constructed, num_channels = 2
C20_Witness ==
    /\ \A t \in Threads :
           /\ pc[t] = "done"
           /\ frame[t].n_qn = 1
           /\ frame[t].hole_kappa = 1
           /\ PassedHoleCheck(t)
           /\ PassedDiagCheck(t)
    /\ DOMAIN channels = {<<1, 1>>}
    /\ next_id = 3
    /\ num_channels = 2
    /\ diag_reads = 2

====
